---- MODULE Spec2Model ----
(***************************************************************************)
(* Agentic-RAG.                                                            *)
(*                                                                         *)
(* The FAISS vector store (vector_store/faiss_store.py): a store is the    *)
(* triple (dimension, index, chunks).  The index is a faiss.IndexFlatL2:   *)
(* its dimension d and the matrix xb of stored vectors, searched by brute  *)
(* force.  Vectors are sequences of integers small enough that float32     *)
(* holds them and their squared distances exactly.  Python positions are   *)
(* 0-based; xb and chunks are TLA+ sequences, so position i of the code is *)
(* element i + 1 here.                                                     *)
(*                                                                         *)
(* Further down: the numeric tool (agents/tool_executor.py), the chunker   *)
(* (ingestion/chunker.py), the query pipelines (agents/planner.py,         *)
(* agents/reasoner.py, agents/orchestrator.py, server.py, app.py) and the  *)
(* server's uploads and queries on the shared store (server.py), first     *)
(* with the upload's add interleaved with the pool's searches, then one    *)
(* request at a time with uploaded_files and csv_dataframes, and the       *)
(* Streamlit session (app.py).  Each part has its own specification; the   *)
(* variables of the other parts rest.                                      *)
(***************************************************************************)
EXTENDS Integers, Sequences, FiniteSets, TLC

VARIABLES
    dimension,  \* FAISSStore.dimension
    index,      \* FAISSStore.index: [d |-> dimension of the index, xb |-> vectors]
    chunks,     \* FAISSStore.chunks: the parallel list of chunk dicts
    paired,     \* history: for each vector of index.xb, the chunk add() got with it
    disk,       \* the save directory: index.faiss and chunks.json
    last,       \* the last call made on the store and what it returned or raised
    tool,       \* one call of tool_executor.execute: its arguments and its outcome
    chunking,   \* one call of chunker.chunk_text: its arguments and its outcome
    pipe,       \* one run of a query pipeline: its entry point, position and trace
    srv,        \* the HTTP server: the upload and the query in progress, or its
                \* shared state and the last request
    session     \* the Streamlit app: st.session_state and the last script run

vars == <<dimension, index, chunks, paired, disk, last, tool, chunking, pipe, srv,
         session>>

\* what the store's operations leave alone
others == <<tool, chunking, pipe, srv, session>>

\* a part of the program that is not running
Idle == [pc |-> "idle"]

(***************************************************************************)
(* Bounds of the model.                                                    *)
(***************************************************************************)
MaxCount == 2       \* the vectors an index may hold, and so the rows of one add

(***************************************************************************)
(* Inputs.                                                                 *)
(***************************************************************************)
Dims == {1, 2}

\* rows offered to add and queries offered to search, of both lengths
DataVecs == {<<0>>, <<0, 0>>, <<10, 10>>}
QueryVecs == {<<1>>, <<1, 1>>, <<5, 5>>, <<10, 10>>}
TopKs == {-1, 0, 1, 2, 5}

\* chunk dicts: one with "text" and "metadata", one with neither key
ChunkNear == [text |-> "near", metadata |-> {<<"chunk_index", 0>>}]
ChunkBare == [source |-> "far.txt"]
Chunks == {ChunkNear, ChunkBare}

\* an embeddings array of shape (n, cols)
Matrix(rows, cols) == [rows |-> rows, cols |-> cols]

\* the inputs of the persistence specification: add calls of one row and of two
\* rows with their chunks, of one row without a chunk, of a chunk without a row
\* and of one row of three numbers; one query
SmallAdds ==
    {[emb |-> Matrix(<<<<0, 0>>>>, 2), cks |-> <<ChunkNear>>],
     [emb |-> Matrix(<<<<10, 10>>>>, 2), cks |-> <<ChunkBare>>],
     [emb |-> Matrix(<<<<10, 10>>, <<0, 0>>>>, 2), cks |-> <<ChunkBare, ChunkNear>>],
     [emb |-> Matrix(<<<<0, 0>>>>, 2), cks |-> <<>>],
     [emb |-> Matrix(<<>>, 2), cks |-> <<ChunkBare>>],
     [emb |-> Matrix(<<<<0, 0, 0>>>>, 3), cks |-> <<ChunkNear>>]}
SmallQueries == {<<1, 1>>}
SmallTopKs == {1, 5}

(***************************************************************************)
(* Helpers.                                                                *)
(***************************************************************************)
Min(a, b) == IF a <= b THEN a ELSE b

SeqsUpTo(S, n) == UNION {[1..k -> S] : k \in 0..n}

\* dict.get(key, default)
Get(chunk, key, default) == IF key \in DOMAIN chunk THEN chunk[key] ELSE default

\* numpy astype(np.float32) of one number: exact up to 2^24 in magnitude; between
\* 2^24 and 2^25 the spacing is 2 and a tie goes to the even mantissa
AsFloat32(x) ==
    IF x >= -16777216 /\ x <= 16777216 THEN x
    ELSE IF x % 2 = 0 THEN x
    ELSE IF (x - 1) % 4 = 0 THEN x - 1 ELSE x + 1

AsFloat32Rows(rows) == [i \in 1..Len(rows) |-> [j \in 1..Len(rows[i]) |-> AsFloat32(rows[i][j])]]

Matrices(VS, n) ==
    UNION {{Matrix(rows, c) : rows \in {r \in SeqsUpTo(VS, n) : \A i \in 1..Len(r) : Len(r[i]) = c}}
           : c \in Dims}

\* the add calls offered in Spec: every array of rows of one length with every
\* list of as many chunks, and arrays with a list of another length
MatchingAdds ==
    UNION {{[emb |-> e, cks |-> c] : c \in [1..Len(e.rows) -> Chunks]} : e \in Matrices(DataVecs, MaxCount)}

MismatchedAdds ==
    {call \in {[emb |-> e, cks |-> c] : e \in Matrices({<<0>>, <<0, 0>>}, MaxCount),
                                       c \in SeqsUpTo({ChunkNear}, MaxCount)} :
        Len(call.emb.rows) # Len(call.cks)}

\* a call record: the operation and the error it raised ("none": it returned);
\* for add the shape (n, cols) of the array, the number m of chunks and, when it
\* returned, the rows (vecs) and chunks (pays) given; for search the query row q,
\* top_k (k), the labels faiss returned (lab) and the matches (out); for count
\* the value returned (n); for new and load the dimension given (k)
NoCall == [op |-> "new", err |-> "none", n |-> 0, m |-> 0, cols |-> 0, vecs |-> <<>>,
           pays |-> <<>>, q |-> <<>>, k |-> 0, lab |-> <<>>, out |-> <<>>]

(***************************************************************************)
(* FAISSStore.__init__                                                     *)
(***************************************************************************)
IndexFlatL2(d) == [d |-> d, xb |-> <<>>]

NoIndexFile == [state |-> "absent", d |-> 0, xb |-> <<>>, paired |-> <<>>]

NoChunksFile == [state |-> "absent", data |-> <<>>]

EmptyDisk == [index |-> NoIndexFile, chunks |-> NoChunksFile]

NewStore(d) ==
    /\ dimension' = d
    /\ index' = IndexFlatL2(d)
    /\ chunks' = <<>>
    /\ paired' = <<>>

Init ==
    /\ dimension \in Dims
    /\ index = IndexFlatL2(dimension)
    /\ chunks = <<>>
    /\ paired = <<>>
    /\ disk = EmptyDisk
    /\ last = NoCall
    /\ tool = Idle /\ chunking = Idle /\ pipe = Idle /\ srv = Idle /\ session = Idle

(***************************************************************************)
(* FAISSStore.count                                                        *)
(***************************************************************************)
\* faiss: index.ntotal
ntotal(ix) == Len(ix.xb)

StoreCount(ix) == ntotal(ix)

Count ==
    /\ last' = [NoCall EXCEPT !.op = "count", !.n = StoreCount(index)]
    /\ UNCHANGED <<dimension, index, chunks, paired, disk>>
    /\ UNCHANGED others

(***************************************************************************)
(* FAISSStore.add                                                          *)
(***************************************************************************)
\* faulty variant: the last row of x is not appended
IndexAdd_DropsLastRow(ix, rows) ==
    [ix EXCEPT !.xb = @ \o AsFloat32Rows(SubSeq(rows, 1, Len(rows) - 1))]

\* faiss IndexFlatL2.add(x): the rows of x, as float32, after the stored ones
IndexAdd(ix, rows) == [ix EXCEPT !.xb = @ \o AsFloat32Rows(rows)]

\* faulty variant: the new chunks go in front of the stored ones
ChunksExtend_InFront(cs, cks) == cks \o cs

\* list.extend
ChunksExtend(cs, cks) == cs \o cks

\* faulty variant: the rows are appended whatever their length
FaissAdd_Unchecked(ix, emb) == [err |-> "none", index |-> IndexAdd(ix, emb.rows)]

\* faiss's Python wrapper of index.add: n, d = x.shape; assert d == self.d; then
\* the rows are appended.  A failed assertion leaves the index as it was.
FaissAdd(ix, emb) ==
    IF emb.cols # ix.d
    THEN [err |-> "AssertionError", index |-> ix]
    ELSE [err |-> "none", index |-> IndexAdd(ix, emb.rows)]

\* faulty variant: the counts are compared after index.add
AddOutcome_CheckAfterIndexAdd(ix, cs, emb, cks) ==
    LET r == FaissAdd(ix, emb) IN
    IF r.err # "none" THEN [err |-> r.err, index |-> r.index, chunks |-> cs]
    ELSE IF Len(emb.rows) # Len(cks) THEN [err |-> "ValueError", index |-> r.index, chunks |-> cs]
    ELSE [err |-> "none", index |-> r.index, chunks |-> ChunksExtend(cs, cks)]

\* add(embeddings, chunks), statement by statement: the count check, index.add,
\* chunks.extend; the error raised and the two sequences as the call leaves them
AddOutcome(ix, cs, emb, cks) ==
    IF Len(emb.rows) # Len(cks)
    THEN [err |-> "ValueError", index |-> ix, chunks |-> cs]
    ELSE LET r == FaissAdd(ix, emb) IN
         IF r.err # "none"
         THEN [err |-> r.err, index |-> r.index, chunks |-> cs]
         ELSE [err |-> "none", index |-> r.index, chunks |-> ChunksExtend(cs, cks)]

\* history: the chunks that came with the rows a call appended to the index
PairedWith(grown, cks) ==
    [i \in 1..grown |-> IF i <= Len(cks) THEN cks[i] ELSE [text |-> "?"]]

Add(calls) ==
    \E call \in calls :
        LET emb == call.emb
            cks == call.cks
            r == AddOutcome(index, chunks, emb, cks)
        IN
        /\ r.err = "none" => /\ ntotal(index) + Len(emb.rows) <= MaxCount
                             /\ Len(chunks) + Len(cks) <= MaxCount
        /\ index' = r.index
        /\ chunks' = r.chunks
        /\ paired' = paired \o PairedWith(ntotal(r.index) - ntotal(index), cks)
        /\ last' = [NoCall EXCEPT !.op = "add", !.err = r.err, !.n = Len(emb.rows),
                                  !.m = Len(cks), !.cols = emb.cols,
                                  !.vecs = IF r.err = "none" THEN emb.rows ELSE <<>>,
                                  !.pays = IF r.err = "none" THEN cks ELSE <<>>]
        /\ UNCHANGED <<dimension, disk>>
        /\ UNCHANGED others

(***************************************************************************)
(* FAISSStore.search                                                       *)
(***************************************************************************)
RECURSIVE SumSq(_, _, _)
SumSq(x, y, i) == IF i = 0 THEN 0 ELSE (x[i] - y[i]) * (x[i] - y[i]) + SumSq(x, y, i - 1)

RECURSIVE Dot(_, _, _)
Dot(x, y, i) == IF i = 0 THEN 0 ELSE x[i] * y[i] + Dot(x, y, i - 1)

\* faulty variant: an inner-product index: the larger product is the better match
L2Sqr_InnerProduct(x, y) == 0 - Dot(x, y, Len(x))

\* the metric of IndexFlatL2: the squared L2 distance of two vectors of one length
L2Sqr(x, y) == SumSq(x, y, Len(x))

\* the query: a 1-D array (ndim = 1, data its elements) or a 2-D array of one
\* row (ndim = 2, data that row)
Queries(QS) == {[ndim |-> nd, data |-> v] : nd \in {1, 2}, v \in QS}

\* query.reshape(1, -1) of a 1-D query; a 2-D query is searched as it is
Reshape(query) == <<query.data>>

\* faulty variant: top_k is passed on as given
ClampTopK_Unclamped(top_k, n) == top_k

\* top_k = min(top_k, self.index.ntotal)
ClampTopK(top_k, n) == Min(top_k, n)

\* the label rows IndexFlatL2.search may return for one query row and k >= 1:
\* the min(k, ntotal) nearest positions, nearest first, equal distances in any
\* order, then -1 for each neighbour that does not exist
FaissLabels(ix, q, k) ==
    LET n == ntotal(ix)
        m == Min(k, n)
        D(l) == L2Sqr(ix.xb[l + 1], q)
        nearest == {s \in [1..m -> 0..(n - 1)] :
                      /\ \A i, j \in 1..m : i < j => s[i] # s[j] /\ D(s[i]) <= D(s[j])
                      /\ \A l \in 0..(n - 1) :
                            (\A i \in 1..m : s[i] # l) => \A i \in 1..m : D(s[i]) <= D(l)}
    IN  {[i \in 1..k |-> IF i <= m THEN s[i] ELSE -1] : s \in nearest}

\* the distance row that goes with a label row (the largest value stands for the
\* infinity faiss reports with a label of -1)
FaissDistances(ix, q, I) ==
    [i \in 1..Len(I) |-> IF I[i] = -1 THEN 2147483647 ELSE L2Sqr(ix.xb[I[i] + 1], q)]

\* faiss's Python wrapper of index.search(x, k): assert d == self.d; assert k > 0
FaissSearch(ix, x, k) ==
    IF Len(x[1]) # ix.d \/ k <= 0
    THEN {[err |-> "AssertionError", D |-> <<>>, I |-> <<>>]}
    ELSE {[err |-> "none", D |-> FaissDistances(ix, x[1], I), I |-> I] : I \in FaissLabels(ix, x[1], k)}

\* faulty variant: the distance is turned into a similarity
Match_Similarity(chunk, dist) ==
    [text |-> Get(chunk, "text", ""), metadata |-> Get(chunk, "metadata", {}), score |-> 0 - dist]

\* one entry of the result list
Match(chunk, dist) ==
    [text |-> Get(chunk, "text", ""), metadata |-> Get(chunk, "metadata", {}), score |-> dist]

\* faulty variant: each match is put in front of the earlier ones
RECURSIVE Collect_InFront(_, _, _, _)
Collect_InFront(D, I, cs, i) ==
    IF i > Len(I) THEN [err |-> "none", out |-> <<>>]
    ELSE IF I[i] = -1 THEN Collect_InFront(D, I, cs, i + 1)
    ELSE IF I[i] >= Len(cs) THEN [err |-> "IndexError", out |-> <<>>]
    ELSE LET rest == Collect_InFront(D, I, cs, i + 1) IN
         IF rest.err # "none" THEN rest
         ELSE [err |-> "none", out |-> rest.out \o <<Match(cs[I[i] + 1], D[i])>>]

\* the loop over zip(distances[0], indices[0]) from pair i on: -1 is skipped,
\* self.chunks[idx] raises IndexError past the end of the list
RECURSIVE Collect(_, _, _, _)
Collect(D, I, cs, i) ==
    IF i > Len(I) THEN [err |-> "none", out |-> <<>>]
    ELSE IF I[i] = -1 THEN Collect(D, I, cs, i + 1)
    ELSE IF I[i] >= Len(cs) THEN [err |-> "IndexError", out |-> <<>>]
    ELSE LET rest == Collect(D, I, cs, i + 1) IN
         IF rest.err # "none" THEN rest
         ELSE [err |-> "none", out |-> <<Match(cs[I[i] + 1], D[i])>> \o rest.out]

\* faulty variant: no early return for an empty index
SearchOutcomes_NoEmptyCheck(ix, cs, query, top_k) ==
    LET x == Reshape(query)
        k == ClampTopK(top_k, ntotal(ix))
    IN  {IF f.err # "none" THEN [err |-> f.err, lab |-> <<>>, out |-> <<>>]
         ELSE LET c == Collect(f.D, f.I, cs, 1) IN [err |-> c.err, lab |-> f.I, out |-> c.out]
         : f \in FaissSearch(ix, x, k)}

\* search(query_embedding, top_k): every outcome the call may have
SearchOutcomes(ix, cs, query, top_k) ==
    IF ntotal(ix) = 0 THEN {[err |-> "none", lab |-> <<>>, out |-> <<>>]}
    ELSE LET x == Reshape(query)
             k == ClampTopK(top_k, ntotal(ix))
         IN  {IF f.err # "none" THEN [err |-> f.err, lab |-> <<>>, out |-> <<>>]
              ELSE LET c == Collect(f.D, f.I, cs, 1) IN [err |-> c.err, lab |-> f.I, out |-> c.out]
              : f \in FaissSearch(ix, x, k)}

Search(QS, KS) ==
    \E query \in Queries(QS), top_k \in KS :
        \E r \in SearchOutcomes(index, chunks, query, top_k) :
            /\ last' = [NoCall EXCEPT !.op = "search", !.err = r.err, !.q = Reshape(query)[1],
                                      !.k = top_k, !.lab = r.lab, !.out = r.out]
            /\ UNCHANGED <<dimension, index, chunks, paired, disk>>
            /\ UNCHANGED others

(***************************************************************************)
(* FAISSStore.save and FAISSStore.load                                     *)
(***************************************************************************)
\* faiss.write_index: the index as a file
IndexFile(ix, pr) == [state |-> "ok", d |-> ix.d, xb |-> ix.xb, paired |-> pr]

\* json.dump of the chunk list: a JSON array of objects.  A chunk dict has string
\* keys; the value under "metadata" is a dict of integers (chunker._build_chunk),
\* every other value a str.  A str is written as a JSON string, a dict as a JSON
\* object, an int as a JSON number; list order is kept.
JsonOfValue(key, value) ==
    IF key = "metadata"
    THEN [json |-> "object",
          members |-> {<<m[1], [json |-> "number", n |-> m[2]]>> : m \in value}]
    ELSE [json |-> "string", s |-> value]

JsonDump(cs) == [i \in 1..Len(cs) |-> [key \in DOMAIN cs[i] |-> JsonOfValue(key, cs[i][key])]]

\* json.load: a JSON object becomes a dict, a JSON string a str, a JSON number an int
PyOfJson(j) ==
    IF j.json = "object" THEN {<<m[1], m[2].n>> : m \in j.members} ELSE j.s

JsonLoad(js) == [i \in 1..Len(js) |-> [key \in DOMAIN js[i] |-> PyOfJson(js[i][key])]]

JsonRoundTrip(cs) == JsonLoad(JsonDump(cs))

ChunksFile(cs) == [state |-> "ok", data |-> JsonDump(cs)]

\* faulty variant: the chunk list is emptied once the files are written
Save_ClearsChunks ==
    /\ disk' = [index |-> IndexFile(index, paired), chunks |-> ChunksFile(chunks)]
    /\ last' = [NoCall EXCEPT !.op = "save"]
    /\ chunks' = <<>>
    /\ UNCHANGED <<dimension, index, paired>>
    /\ UNCHANGED others

\* save(directory) and the places an I/O error can end it: os.makedirs (nothing
\* written), open of chunks.json (index.faiss written, chunks.json as it was),
\* json.dump (index.faiss written, chunks.json cut short)
Save ==
    \E fail \in {"none", "makedirs", "open", "dump"} :
        /\ disk' = CASE fail = "none" -> [index |-> IndexFile(index, paired), chunks |-> ChunksFile(chunks)]
                     [] fail = "makedirs" -> disk
                     [] fail = "open" -> [disk EXCEPT !.index = IndexFile(index, paired)]
                     [] fail = "dump" -> [index |-> IndexFile(index, paired),
                                          chunks |-> [state |-> "corrupt", data |-> <<>>]]
        /\ last' = [NoCall EXCEPT !.op = "save", !.err = IF fail = "none" THEN "none" ELSE "OSError"]
        /\ UNCHANGED <<dimension, index, chunks, paired>>
        /\ UNCHANGED others

\* load(directory, dimension): cls(dimension), then the index and the chunk list
\* are replaced by what the two files hold; a missing or unreadable file raises
LoadRaises(dk) ==
    IF dk.index.state # "ok" THEN "RuntimeError"
    ELSE IF dk.chunks.state = "absent" THEN "FileNotFoundError"
    ELSE IF dk.chunks.state = "corrupt" THEN "JSONDecodeError"
    ELSE "none"

\* faulty variant: the index read from the file is not assigned to the store
LoadOutcome_KeepsNewIndex(dk, dim) ==
    LET err == LoadRaises(dk) IN
    IF err = "none"
    THEN [err |-> err, dimension |-> dim, index |-> IndexFlatL2(dim),
          chunks |-> JsonLoad(dk.chunks.data), paired |-> dk.index.paired]
    ELSE [err |-> err]

\* faulty variant: a dimension other than the index's is refused
LoadOutcome_ChecksDimension(dk, dim) ==
    LET err == IF LoadRaises(dk) = "none" /\ dk.index.d # dim THEN "ValueError"
               ELSE LoadRaises(dk) IN
    IF err = "none"
    THEN [err |-> err, dimension |-> dim, index |-> [d |-> dk.index.d, xb |-> dk.index.xb],
          chunks |-> JsonLoad(dk.chunks.data), paired |-> dk.index.paired]
    ELSE [err |-> err]

LoadOutcome(dk, dim) ==
    LET err == LoadRaises(dk) IN
    IF err = "none"
    THEN [err |-> err, dimension |-> dim, index |-> [d |-> dk.index.d, xb |-> dk.index.xb],
          chunks |-> JsonLoad(dk.chunks.data), paired |-> dk.index.paired]
    ELSE [err |-> err]

Load ==
    \E dim \in Dims :
        LET r == LoadOutcome(disk, dim) IN
        /\ IF r.err = "none"
           THEN /\ dimension' = r.dimension
                /\ index' = r.index
                /\ chunks' = r.chunks
                /\ paired' = r.paired
           ELSE UNCHANGED <<dimension, index, chunks, paired>>
        /\ last' = [NoCall EXCEPT !.op = "load", !.err = r.err, !.k = dim]
        /\ UNCHANGED disk
        /\ UNCHANGED others

\* a new store replaces the one in use
New ==
    \E d \in Dims :
        /\ NewStore(d)
        /\ last' = [NoCall EXCEPT !.k = d]
        /\ UNCHANGED disk
        /\ UNCHANGED others

(***************************************************************************)
(* Specifications.                                                         *)
(* Spec: add, search and count on one store, with every input.             *)
(* SpecPersist: stores made by new and by load from the directory, with    *)
(* the small inputs.                                                       *)
(***************************************************************************)
Next ==
    \/ Add(MatchingAdds \cup MismatchedAdds)
    \/ Search(QueryVecs, TopKs)
    \/ Count

Spec == Init /\ [][Next]_vars

NextPersist ==
    \/ New
    \/ Add(SmallAdds)
    \/ Search(SmallQueries, SmallTopKs)
    \/ Count
    \/ Save
    \/ Load

SpecPersist == Init /\ [][NextPersist]_vars

(***************************************************************************)
(* tool_executor.py: the numeric tool.                                     *)
(*                                                                         *)
(* A DataFrame is a function from column names to columns; a column has a  *)
(* dtype and its cells in row order.  A cell of a number column is null    *)
(* (NaN) or an integer; a text column holds words (dtype object).  A float *)
(* the tool returns is kept in ten-thousandths, the unit round(x, 4)       *)
(* leaves, or is NaN.  The integers are small enough that float64 holds    *)
(* them, their sums and differences exactly and that no quotient falls on  *)
(* a rounding tie.                                                         *)
(***************************************************************************)
MaxRows == 3        \* the rows of a DataFrame

Null == [null |-> TRUE, v |-> 0]
Cell(v) == [null |-> FALSE, v |-> v]
Word == [null |-> FALSE, s |-> "north"]

CellValues == {-2, 0, 3, 4, 100, 150}
Cells == {Null} \cup {Cell(v) : v \in CellValues}

NumberColumn(cells) == [dtype |-> "number", cells |-> cells]
TextColumn(n) == [dtype |-> "text", cells |-> [i \in 1..n |-> Word]]

\* DataFrames: the number column "value" alone, and with the text column "region"
Frames ==
    {[value |-> NumberColumn(c)] : c \in SeqsUpTo(Cells, MaxRows)}
    \cup {[value |-> NumberColumn(c), region |-> TextColumn(Len(c))] :
              c \in SeqsUpTo(Cells, MaxRows) \ {<<>>}}

\* the operation and column names offered: "median" is no operation of the
\* tool, "profit" a column of no DataFrame
Operations == {"average", "sum", "growth_rate", "median"}
ColumnNames == {"value", "region", "profit"}

\* round(x, 4) keeps four decimals: results are counted in units of 1/10000
Scale == 10000

NaN == [nan |-> TRUE, e4 |-> 0]
Number(e4) == [nan |-> FALSE, e4 |-> e4]

\* the quotient n / d (d > 0) as the nearest integer, a tie going to the even one
HalfEven(n, d) ==
    LET q == n \div d
        r == n - q * d
    IN  IF 2 * r < d THEN q
        ELSE IF 2 * r > d THEN q + 1
        ELSE IF q % 2 = 0 THEN q ELSE q + 1

\* round(num / den, 4), in ten-thousandths
Round4(num, den) ==
    IF den > 0 THEN HalfEven(num * Scale, den) ELSE HalfEven((0 - num) * Scale, 0 - den)

\* Series.dropna
DropNa(cells) == SelectSeq(cells, LAMBDA c : ~c.null)

RECURSIVE SumCells(_, _)
SumCells(cells, i) == IF i = 0 THEN 0 ELSE cells[i].v + SumCells(cells, i - 1)

\* compute_average: Series.mean skips nulls and is NaN when nothing is left; on
\* a column of words it raises TypeError
ComputeAverage(df, column) ==
    IF column \notin DOMAIN df THEN [err |-> "ValueError"]
    ELSE IF df[column].dtype = "text" THEN [err |-> "TypeError"]
    ELSE LET vals == DropNa(df[column].cells) IN
         [err |-> "none",
          result |-> [operation |-> "average", column |-> column,
                      result |-> IF Len(vals) = 0 THEN NaN
                                 ELSE Number(Round4(SumCells(vals, Len(vals)), Len(vals)))]]

\* compute_sum: Series.sum skips nulls and is 0 when nothing is left; on a
\* column of words it is their concatenation, which float() refuses
ComputeSum(df, column) ==
    IF column \notin DOMAIN df THEN [err |-> "ValueError"]
    ELSE IF df[column].dtype = "text" THEN [err |-> "ValueError"]
    ELSE LET vals == DropNa(df[column].cells) IN
         [err |-> "none",
          result |-> [operation |-> "sum", column |-> column,
                      result |-> Number(Round4(SumCells(vals, Len(vals)), 1))]]

\* faulty variant: the last value is taken from the second row left
ComputeGrowthRate_SecondValue(df, column) ==
    IF column \notin DOMAIN df THEN [err |-> "ValueError"]
    ELSE LET series == DropNa(df[column].cells) IN
         IF Len(series) < 2 THEN [err |-> "ValueError"]
         ELSE IF df[column].dtype = "text" THEN [err |-> "ValueError"]
         ELSE LET first == series[1].v
                  lastv == series[2].v
              IN  IF first = 0 THEN [err |-> "ValueError"]
                  ELSE [err |-> "none",
                        result |-> [operation |-> "growth_rate", column |-> column,
                                    first |-> Number(Round4(first, 1)),
                                    last |-> Number(Round4(lastv, 1)),
                                    result_pct |-> Number(Round4((lastv - first) * 100, first))]]

\* faulty variant: one value left is taken to be enough
ComputeGrowthRate_OneValueEnough(df, column) ==
    IF column \notin DOMAIN df THEN [err |-> "ValueError"]
    ELSE LET series == DropNa(df[column].cells) IN
         IF Len(series) < 1 THEN [err |-> "ValueError"]
         ELSE IF df[column].dtype = "text" THEN [err |-> "ValueError"]
         ELSE LET first == series[1].v
                  lastv == series[Len(series)].v
              IN  IF first = 0 THEN [err |-> "ValueError"]
                  ELSE [err |-> "none",
                        result |-> [operation |-> "growth_rate", column |-> column,
                                    first |-> Number(Round4(first, 1)),
                                    last |-> Number(Round4(lastv, 1)),
                                    result_pct |-> Number(Round4((lastv - first) * 100, first))]]

\* compute_growth_rate: the column check, dropna, the length check, float() of
\* the first and the last value left (a word is refused), the zero check, the
\* rate, and the three numbers rounded
ComputeGrowthRate(df, column) ==
    IF column \notin DOMAIN df THEN [err |-> "ValueError"]
    ELSE LET series == DropNa(df[column].cells) IN
         IF Len(series) < 2 THEN [err |-> "ValueError"]
         ELSE IF df[column].dtype = "text" THEN [err |-> "ValueError"]
         ELSE LET first == series[1].v
                  lastv == series[Len(series)].v
              IN  IF first = 0 THEN [err |-> "ValueError"]
                  ELSE [err |-> "none",
                        result |-> [operation |-> "growth_rate", column |-> column,
                                    first |-> Number(Round4(first, 1)),
                                    last |-> Number(Round4(lastv, 1)),
                                    result_pct |-> Number(Round4((lastv - first) * 100, first))]]

\* execute(df, operation, column): the operation is looked up first, then the
\* function found is called
ExecuteOutcome(df, operation, column) ==
    IF operation \notin {"average", "sum", "growth_rate"} THEN [err |-> "ValueError"]
    ELSE IF operation = "average" THEN ComputeAverage(df, column)
    ELSE IF operation = "sum" THEN ComputeSum(df, column)
    ELSE ComputeGrowthRate(df, column)

ToolCalls == [pc : {"call"}, df : Frames, operation : Operations, column : ColumnNames,
              out : {[err |-> "pending"]}]

Execute ==
    /\ tool.pc = "call"
    /\ tool' = [tool EXCEPT !.pc = "done",
                            !.out = ExecuteOutcome(tool.df, tool.operation, tool.column)]
    /\ UNCHANGED <<dimension, index, chunks, paired, disk, last, chunking, pipe, srv, session>>

\* no store is in use
NoStore ==
    /\ dimension \in {1}
    /\ index = IndexFlatL2(dimension)
    /\ chunks = <<>>
    /\ paired = <<>>
    /\ disk = EmptyDisk
    /\ last = NoCall

(***************************************************************************)
(* SpecTool: one call of execute, with every DataFrame, operation name and *)
(* column name offered.                                                    *)
(***************************************************************************)
InitTool ==
    /\ NoStore
    /\ tool \in ToolCalls
    /\ chunking = Idle /\ pipe = Idle /\ srv = Idle /\ session = Idle

NextTool == Execute

SpecTool == InitTool /\ [][NextTool]_vars

(***************************************************************************)
(* ingestion/chunker.py: the sentence-aware chunker.                       *)
(*                                                                         *)
(* A str is the sequence of its characters.  The texts offered are made of *)
(* a few pieces put end to end: sentences of 0, 1 and 2 estimated tokens,  *)
(* a space, and a letter without a full stop.                              *)
(***************************************************************************)
MaxPieces == 5      \* the pieces a text is made of

APPROX_CHARS_PER_TOKEN == 4

Pieces == {<<"a", "a", "a", ".">>,
           <<"b", "?">>,
           <<"c", "c", "c", "c", "c", "c", "c", "c", "!">>,
           <<"d">>,
           <<" ">>}

RECURSIVE Concat(_, _)
Concat(ps, i) == IF i = 0 THEN <<>> ELSE Concat(ps, i - 1) \o ps[i]

Texts == {Concat(ps, Len(ps)) : ps \in SeqsUpTo(Pieces, MaxPieces)}

\* the chunk_size values offered
ChunkSizes == {0, 1, 2, 3}

\* the characters [.!?] and \s of the pattern
Terminators == {".", "!", "?"}
Whitespace == {" "}

\* the first position from i on that holds no whitespace (Len + 1: none)
RECURSIVE SkipWhitespace(_, _)
SkipWhitespace(text, i) ==
    IF i > Len(text) \/ text[i] \notin Whitespace THEN i ELSE SkipWhitespace(text, i + 1)

\* re.split(r"(?<=[.!?])\s+", text): the text is cut at every run of whitespace
\* that follows one of . ! ? and the run is dropped; cur is the part being read
RECURSIVE ReSplit(_, _, _)
ReSplit(text, i, cur) ==
    IF i > Len(text) THEN <<cur>>
    ELSE IF text[i] \in Whitespace /\ i > 1 /\ text[i - 1] \in Terminators
    THEN <<cur>> \o ReSplit(text, SkipWhitespace(text, i), <<>>)
    ELSE ReSplit(text, i + 1, Append(cur, text[i]))

\* str.strip
RECURSIVE Strip(_)
Strip(s) ==
    IF s = <<>> THEN s
    ELSE IF s[1] \in Whitespace THEN Strip(Tail(s))
    ELSE IF s[Len(s)] \in Whitespace THEN Strip(SubSeq(s, 1, Len(s) - 1))
    ELSE s

\* _split_sentences: the parts stripped, the empty ones left out
SplitSentences(text) ==
    LET parts == ReSplit(text, 1, <<>>)
        stripped == [i \in 1..Len(parts) |-> Strip(parts[i])]
    IN  SelectSeq(stripped, LAMBDA s : s # <<>>)

\* _estimate_tokens
EstimateTokens(text) == Len(text) \div APPROX_CHARS_PER_TOKEN

\* " ".join(sentences)
RECURSIVE Join(_, _)
Join(sentences, i) ==
    IF i = 0 THEN <<>>
    ELSE IF i = 1 THEN sentences[1]
    ELSE Join(sentences, i - 1) \o <<" ">> \o sentences[i]

\* faulty variant: the chunks are numbered from 1
BuildChunk_OneBased(sentences, idx, source) ==
    LET text == Join(sentences, Len(sentences)) IN
    [text |-> text,
     metadata |-> [chunk_index |-> idx + 1, source |-> source,
                   estimated_tokens |-> EstimateTokens(text)]]

\* _build_chunk
BuildChunk(sentences, idx, source) ==
    LET text == Join(sentences, Len(sentences)) IN
    [text |-> text,
     metadata |-> [chunk_index |-> idx, source |-> source,
                   estimated_tokens |-> EstimateTokens(text)]]

\* faulty variant: the sentences left at the end are not flushed
FinalFlush_Forgotten(out, current_sentences, source) == out

\* lines 70-71: the sentences left over make the last chunk
FinalFlush(out, current_sentences, source) ==
    IF current_sentences # <<>>
    THEN Append(out, BuildChunk(current_sentences, Len(out), source))
    ELSE out

\* the loop of chunk_text from the i-th sentence on: out is the list chunks
RECURSIVE ChunkLoop(_, _, _, _, _, _, _)
ChunkLoop(sentences, i, out, current_sentences, current_tokens, chunk_size, source) ==
    IF i > Len(sentences) THEN FinalFlush(out, current_sentences, source)
    ELSE
    LET sentence == sentences[i]
        sentence_tokens == EstimateTokens(sentence)
    IN  IF sentence_tokens >= chunk_size
        THEN LET flushed == IF current_sentences # <<>>
                            THEN Append(out, BuildChunk(current_sentences, Len(out), source))
                            ELSE out
             IN  ChunkLoop(sentences, i + 1,
                           Append(flushed, BuildChunk(<<sentence>>, Len(flushed), source)),
                           <<>>, 0, chunk_size, source)
        ELSE IF current_tokens + sentence_tokens > chunk_size /\ current_sentences # <<>>
        THEN ChunkLoop(sentences, i + 1,
                       Append(out, BuildChunk(current_sentences, Len(out), source)),
                       <<sentence>>, sentence_tokens, chunk_size, source)
        ELSE ChunkLoop(sentences, i + 1, out, Append(current_sentences, sentence),
                       current_tokens + sentence_tokens, chunk_size, source)

ChunkText(text, chunk_size, source) ==
    ChunkLoop(SplitSentences(text), 1, <<>>, <<>>, 0, chunk_size, source)

ChunkCalls == [pc : {"call"}, text : Texts, chunk_size : ChunkSizes, source : {"doc.txt"},
               out : {<<>>}]

Chunk ==
    /\ chunking.pc = "call"
    /\ chunking' = [chunking EXCEPT !.pc = "done",
                        !.out = ChunkText(chunking.text, chunking.chunk_size, chunking.source)]
    /\ UNCHANGED <<dimension, index, chunks, paired, disk, last, tool, pipe, srv, session>>

(***************************************************************************)
(* SpecChunker: one call of chunk_text, with every text and chunk_size     *)
(* offered.                                                                *)
(***************************************************************************)
InitChunker ==
    /\ NoStore
    /\ chunking \in ChunkCalls
    /\ tool = Idle /\ pipe = Idle /\ srv = Idle /\ session = Idle

NextChunker == Chunk

SpecChunker == InitChunker /\ [][NextChunker]_vars

(***************************************************************************)
(* The query pipelines: agents/planner.py (plan_query), agents/reasoner.py *)
(* (reason), agents/orchestrator.py (run_pipeline), server.py              *)
(* (_run_query_pipeline) and app.py (the Q&A flow).                        *)
(*                                                                         *)
(* A reply of the language model is known by what json.loads makes of it:  *)
(* kind "invalid" (no JSON), "object", "array" or "number"; has is the set *)
(* of the names for which "name in value" is true (the keys of an object,  *)
(* the strings of an array); nn is the truth value of the object's         *)
(* needs_numeric.                                                          *)
(***************************************************************************)
PlanKeys == {"analysis_type", "needs_numeric", "retrieval_focus"}
ReasonKeys == {"answer", "confidence", "sources_used"}

NoReply == [kind |-> "none", has |-> {}, nn |-> FALSE]

Replies(keys) ==
    {[kind |-> "invalid", has |-> {}, nn |-> FALSE], [kind |-> "number", has |-> {}, nn |-> FALSE]}
    \cup {r \in [kind : {"object", "array"}, has : SUBSET keys, nn : BOOLEAN] :
              r.nn => (r.kind = "object" /\ "needs_numeric" \in r.has)}

\* json.loads and the loop over the required keys, as plan_query and reason
\* have them: no JSON is a ValueError, "key not in" a number a TypeError, a
\* name not found a ValueError; otherwise the value is returned
ParseOutcome(reply, required) ==
    IF reply.kind = "invalid" THEN [err |-> "ValueError", value |-> NoReply]
    ELSE IF reply.kind = "number" THEN [err |-> "TypeError", value |-> NoReply]
    ELSE IF ~(required \subseteq reply.has) THEN [err |-> "ValueError", value |-> NoReply]
    ELSE [err |-> "none", value |-> reply]

\* run_pipeline: json.loads, with a plan of its own making when it fails; the
\* keys are not looked at
OrchestratorPlan(reply) ==
    IF reply.kind = "invalid"
    THEN [err |-> "none", value |-> [kind |-> "object", has |-> {"raw_response", "error"}, nn |-> FALSE]]
    ELSE [err |-> "none", value |-> reply]

\* plan.get(...), result.get(...): only a dict has get
HasGet(value) == value.kind = "object"

\* the DataFrame of the first CSV uploaded, or none; the order of its columns
NoFrame == [none |-> NumberColumn(<<>>)]
PipeFrames ==
    {NoFrame,
     [value |-> NumberColumn(<<Cell(3), Cell(4)>>)],
     [value |-> NumberColumn(<<Cell(3), Null>>), region |-> TextColumn(2)],
     [region |-> TextColumn(1)],
     [q1 |-> NumberColumn(<<Cell(100)>>), q2 |-> NumberColumn(<<Cell(150)>>),
      q3 |-> NumberColumn(<<Null>>), q4 |-> NumberColumn(<<Cell(0)>>)]}
ColumnOrder == <<"region", "q1", "q2", "q3", "q4", "value">>

\* df.select_dtypes(include="number").columns.tolist()
NumericCols(df) ==
    SelectSeq(ColumnOrder, LAMBDA c : c \in DOMAIN df /\ df[c].dtype = "number")

\* the first n elements of a list: s[:n]
Prefix(s, n) == SubSeq(s, 1, Min(n, Len(s)))

\* a call of the tool in a pipeline: both pipelines wrap it in "except
\* Exception", so it is taken to raise for any cause; faults are the calls
\* (operation, column) that do
ToolCall(df, operation, column, faults) ==
    IF <<operation, column>> \in faults THEN [err |-> "Exception"]
    ELSE ExecuteOutcome(df, operation, column)

\* the calls a pipeline can make on the columns cols
ToolCallsOn(cols) == {"average", "sum"} \X {cols[i] : i \in 1..Len(cols)}

\* server.py lines 224-229: average and sum of each of the first three numeric
\* columns, a column being left at the first call that raises; calls counts
\* the calls made, raised those that raised
RECURSIVE ServerMetrics(_, _, _, _)
ServerMetrics(df, cols, i, faults) ==
    IF i > Len(cols) THEN [calls |-> 0, raised |-> 0, metrics |-> <<>>]
    ELSE LET a == ToolCall(df, "average", cols[i], faults)
             s == ToolCall(df, "sum", cols[i], faults)
             rest == ServerMetrics(df, cols, i + 1, faults)
             here == IF a.err # "none" THEN [calls |-> 1, raised |-> 1, metrics |-> <<>>]
                     ELSE IF s.err # "none"
                     THEN [calls |-> 2, raised |-> 1, metrics |-> <<a.result>>]
                     ELSE [calls |-> 2, raised |-> 0, metrics |-> <<a.result, s.result>>]
         IN  [calls |-> here.calls + rest.calls, raised |-> here.raised + rest.raised,
              metrics |-> here.metrics \o rest.metrics]

\* app.py lines 240-247: the average of the first numeric column
AppMetrics(df, cols, faults) ==
    IF cols = <<>> THEN [calls |-> 0, raised |-> 0, metrics |-> <<>>]
    ELSE LET a == ToolCall(df, "average", cols[1], faults) IN
         [calls |-> 1, raised |-> IF a.err = "none" THEN 0 ELSE 1,
          metrics |-> IF a.err = "none" THEN <<a.result>> ELSE <<>>]

\* faulty variant: the section is written whenever metrics is not None
BuildPrompt_WhenNotNone(is_none, metrics) ==
    IF ~is_none THEN <<"query", "context", "metrics">> ELSE <<"query", "context">>

\* _build_prompt: the sections of the prompt; "if metrics:" is false for None
\* and for an empty list
BuildPrompt(is_none, metrics) ==
    IF ~is_none /\ metrics # <<>> THEN <<"query", "context", "metrics">>
    ELSE <<"query", "context">>

\* faulty variant: the tool runs whenever there is a DataFrame
ToolWanted_WhenData(plan, df) == df # NoFrame

\* plan.get("needs_numeric") and csv_dataframes (server.py line 217),
\* plan.get("needs_numeric") and dataframe is not None (app.py line 238)
ToolWanted(plan, df) == plan.nn /\ df # NoFrame

Entries == {"plan_query", "reason", "run_pipeline", "server", "app"}

Repeat(x, n) == [i \in 1..n |-> x]

\* the planner is asked and its reply parsed
PlanStep ==
    /\ pipe.pc = "plan"
    /\ \E reply \in Replies(PlanKeys) :
          LET r == IF pipe.entry = "run_pipeline" THEN OrchestratorPlan(reply)
                   ELSE ParseOutcome(reply, PlanKeys)
          IN  pipe' = [pipe EXCEPT
                          !.log = Append(@, "plan"),
                          !.reply = reply,
                          !.planned = (r.err = "none"),
                          !.plan = r.value,
                          !.err = r.err,
                          !.pc = IF r.err # "none" THEN "failed"
                                 ELSE IF pipe.entry = "plan_query" THEN "done"
                                 ELSE "retrieve"]
    /\ UNCHANGED <<dimension, index, chunks, paired, disk, last, tool, chunking, srv, session>>

\* retrieval: run_pipeline first reads plan.get("retrieval_focus", query); the
\* retrieval itself (embedding the query, store.search) returns or raises
RetrieveStep ==
    /\ pipe.pc = "retrieve"
    /\ IF pipe.entry = "run_pipeline" /\ ~HasGet(pipe.plan)
       THEN pipe' = [pipe EXCEPT !.pc = "failed", !.err = "AttributeError"]
       ELSE \E raised \in {"none", "IndexError"} :
               pipe' = [pipe EXCEPT
                           !.log = Append(@, "retrieve"),
                           !.err = raised,
                           !.pc = IF raised # "none" THEN "failed"
                                  ELSE IF pipe.entry = "run_pipeline" THEN "done"
                                  ELSE "tool"]
    /\ UNCHANGED <<dimension, index, chunks, paired, disk, last, tool, chunking, srv, session>>

\* the tool block of server.py (lines 216-231) and app.py (lines 237-247): what
\* the tool raises is caught, what plan.get raises is not
ToolStep ==
    /\ pipe.pc = "tool"
    /\ IF ~HasGet(pipe.plan)
       THEN pipe' = [pipe EXCEPT !.pc = "failed", !.err = "AttributeError"]
       ELSE IF ToolWanted(pipe.plan, pipe.df)
       THEN LET cols == IF pipe.entry = "server" THEN Prefix(NumericCols(pipe.df), 3)
                        ELSE Prefix(NumericCols(pipe.df), 1)
            IN  \E faults \in SUBSET ToolCallsOn(cols) :
                   LET m == IF pipe.entry = "server" THEN ServerMetrics(pipe.df, cols, 1, faults)
                            ELSE AppMetrics(pipe.df, cols, faults)
                   IN  pipe' = [pipe EXCEPT
                                   !.log = @ \o Repeat("tool", m.calls),
                                   !.raised = m.raised,
                                   !.metrics = m.metrics,
                                   !.nometrics = IF pipe.entry = "server" THEN cols = <<>>
                                                 ELSE m.metrics = <<>>,
                                   !.pc = "reason"]
       ELSE pipe' = [pipe EXCEPT !.pc = "reason"]
    /\ UNCHANGED <<dimension, index, chunks, paired, disk, last, tool, chunking, srv, session>>

\* reason(query, chunks, metrics): the reasoner is asked and its reply parsed;
\* the server and the app then read the result with result.get
ReasonStep ==
    /\ pipe.pc = "reason"
    /\ \E reply \in Replies(ReasonKeys) :
          LET r == ParseOutcome(reply, ReasonKeys)
              err == IF r.err # "none" THEN r.err
                     ELSE IF pipe.entry # "reason" /\ ~HasGet(r.value) THEN "AttributeError"
                     ELSE "none"
          IN  pipe' = [pipe EXCEPT
                          !.log = Append(@, "reason"),
                          !.prompt = BuildPrompt(pipe.nometrics, pipe.metrics),
                          !.answer = reply,
                          !.answered = (r.err = "none"),
                          !.err = err,
                          !.pc = IF err # "none" THEN "failed" ELSE "done"]
    /\ UNCHANGED <<dimension, index, chunks, paired, disk, last, tool, chunking, srv, session>>

(***************************************************************************)
(* SpecQuery: one run of each entry point, with every reply of the planner *)
(* and of the reasoner and every DataFrame offered.                        *)
(***************************************************************************)
InitQuery ==
    /\ NoStore
    /\ \E entry \in Entries, df \in PipeFrames :
          pipe = [entry |-> entry, df |-> df,
                  pc |-> IF entry = "reason" THEN "reason" ELSE "plan",
                  log |-> <<>>, reply |-> NoReply, planned |-> FALSE, plan |-> NoReply,
                  metrics |-> <<>>, nometrics |-> TRUE, raised |-> 0, prompt |-> <<>>,
                  answer |-> NoReply, answered |-> FALSE, err |-> "none"]
    /\ tool = Idle /\ chunking = Idle /\ srv = Idle /\ session = Idle

NextQuery ==
    \/ PlanStep
    \/ RetrieveStep
    \/ ToolStep
    \/ ReasonStep

SpecQuery == InitQuery /\ [][NextQuery]_vars

(***************************************************************************)
(* server.py: uploads and queries on the one shared store.                 *)
(*                                                                         *)
(* upload_file is a coroutine: from chunk_text to the return it has no     *)
(* await, so the event loop runs one upload's add at a time.  A query is   *)
(* handed to a thread of the pool (run_in_executor), where                 *)
(* _run_query_pipeline calls store.search; nothing locks the store, so     *)
(* the statements of search and of add run in any order between the two    *)
(* threads.  add is taken statement by statement (index.add, then          *)
(* chunks.extend), search in two steps (lines 56-64, then the loop over    *)
(* the labels).                                                            *)
(***************************************************************************)
MaxQueries == 2     \* the queries in the thread pool at a time

\* retrieve(question, store, top_k=5)
ServerTopK == 5

Workers == 1..MaxQueries

\* what an upload adds: the embeddings of its chunks, one row for each chunk
ServerUploads ==
    {[emb |-> Matrix(<<<<0, 0>>>>, 2), cks |-> <<ChunkNear>>],
     [emb |-> Matrix(<<<<10, 10>>>>, 2), cks |-> <<ChunkNear>>],
     [emb |-> Matrix(<<<<10, 10>>, <<0, 0>>>>, 2), cks |-> <<ChunkNear, ChunkNear>>]}

\* the embedding of the question
ServerQuery == [ndim |-> 2, data |-> <<1, 1>>]

NoUpload == [pc |-> "idle", cks |-> <<>>]
NoQuery == [pc |-> "idle", seen |-> [count |-> 0, payloads |-> 0], D |-> <<>>, I |-> <<>>,
            err |-> "none", out |-> <<>>]

\* upload_file up to line 42 of add: the count check passes (one embedding for
\* each chunk) and index.add appends the rows
UploadIndexAdd ==
    /\ srv.upload.pc = "idle"
    /\ \E call \in ServerUploads :
          LET r == FaissAdd(index, call.emb) IN
          /\ Len(call.emb.rows) = Len(call.cks)
          /\ r.err = "none"
          /\ ntotal(index) + Len(call.emb.rows) <= MaxCount
          /\ index' = r.index
          /\ paired' = paired \o call.cks
          /\ srv' = [srv EXCEPT !.upload = [pc |-> "extend", cks |-> call.cks]]
    /\ UNCHANGED <<dimension, chunks, disk, last, tool, chunking, pipe, session>>

\* line 43 of add: chunks.extend, and the upload returns
UploadExtend ==
    /\ srv.upload.pc = "extend"
    /\ chunks' = ChunksExtend(chunks, srv.upload.cks)
    /\ srv' = [srv EXCEPT !.upload = NoUpload]
    /\ UNCHANGED <<dimension, index, paired, disk, last, tool, chunking, pipe, session>>

\* query_documents on the event loop, which is free: store.count() is not 0 and
\* the pipeline is handed to a thread of the pool
QueryDispatch(w) ==
    /\ srv.upload.pc = "idle"
    /\ srv.query[w].pc = "idle"
    /\ StoreCount(index) # 0
    /\ srv' = [srv EXCEPT !.query[w].pc = "search"]
    /\ UNCHANGED <<dimension, index, chunks, paired, disk, last, tool, chunking, pipe, session>>

\* search, lines 56-64, in the thread: the empty check, the clamp and
\* index.search; seen is the count and the number of chunks at that moment
WorkerSearch(w) ==
    /\ srv.query[w].pc = "search"
    /\ IF ntotal(index) = 0
       THEN srv' = [srv EXCEPT !.query[w].pc = "done"]
       ELSE \E f \in FaissSearch(index, Reshape(ServerQuery), ClampTopK(ServerTopK, ntotal(index))) :
               srv' = [srv EXCEPT !.query[w] =
                          [pc |-> IF f.err = "none" THEN "collect" ELSE "done",
                           seen |-> [count |-> StoreCount(index), payloads |-> Len(chunks)],
                           D |-> f.D, I |-> f.I, err |-> f.err, out |-> <<>>]]
    /\ UNCHANGED <<dimension, index, chunks, paired, disk, last, tool, chunking, pipe, session>>

\* search, lines 66-77, in the thread: self.chunks[idx] for each label
WorkerCollect(w) ==
    /\ srv.query[w].pc = "collect"
    /\ LET c == Collect(srv.query[w].D, srv.query[w].I, chunks, 1) IN
       srv' = [srv EXCEPT !.query[w].pc = "done", !.query[w].err = c.err, !.query[w].out = c.out]
    /\ UNCHANGED <<dimension, index, chunks, paired, disk, last, tool, chunking, pipe, session>>

\* the pipeline ends (an answer, or HTTP 500 for what was raised) and the
\* thread is free again
WorkerReturn(w) ==
    /\ srv.query[w].pc = "done"
    /\ srv' = [srv EXCEPT !.query[w] = NoQuery]
    /\ UNCHANGED <<dimension, index, chunks, paired, disk, last, tool, chunking, pipe, session>>

(***************************************************************************)
(* SpecServer: uploads on the event loop and queries in the thread pool.   *)
(***************************************************************************)
InitServer ==
    /\ dimension \in {2}
    /\ index = IndexFlatL2(dimension)
    /\ chunks = <<>>
    /\ paired = <<>>
    /\ disk = EmptyDisk
    /\ last = NoCall
    /\ srv = [upload |-> NoUpload, query |-> [w \in Workers |-> NoQuery]]
    /\ tool = Idle /\ chunking = Idle /\ pipe = Idle /\ session = Idle

NextServer ==
    \/ UploadIndexAdd
    \/ UploadExtend
    \/ \E w \in Workers : QueryDispatch(w)
    \/ \E w \in Workers : WorkerSearch(w)
    \/ \E w \in Workers : WorkerCollect(w)
    \/ \E w \in Workers : WorkerReturn(w)

SpecServer == InitServer /\ [][NextServer]_vars

(***************************************************************************)
(* server.py: the requests and the module's shared state, one request at a *)
(* time (the handlers run on the event loop; upload_file has its one await *)
(* before it touches the shared state).                                    *)
(*                                                                         *)
(* The shared state is _faiss_store (srv.created: it is not None any more; *)
(* index and chunks are its contents, those of an empty store before),     *)
(* uploaded_files and csv_dataframes (its keys, in the order they came).   *)
(* srv.resp is the response to the last request, srv.invoked the steps of  *)
(* the pipeline it called, srv.added the sum of chunks_added over the      *)
(* uploads that succeeded.                                                 *)
(***************************************************************************)
\* the files uploaded: the extension route_file finds, whether the parser
\* raises, whether the text is blank, the chunks chunk_text makes of it and what
\* embed_chunks does (it returns rows of the store's length, rows of another
\* length, or raises)
UploadedFiles ==
    [name : {"sales.csv", "costs.csv"}, ext : {"csv"}, parse : {"ok", "raises"}, blank : BOOLEAN,
     cks : {<<ChunkNear>>}, embed : {"ok", "raises", "wrong_length"}]
    \cup [name : {"notes.txt"}, ext : {"txt"}, parse : {"ok"}, blank : BOOLEAN,
          cks : {<<ChunkNear>>, <<ChunkNear, ChunkNear>>}, embed : {"ok", "raises"}]
    \cup [name : {"tool.exe"}, ext : {"exe"}, parse : {"ok"}, blank : {FALSE},
          cks : {<<ChunkNear>>}, embed : {"ok"}]

SUPPORTED_EXTENSIONS == {"pdf", "csv", "json", "txt", "docx"}

\* embed_chunks: one row for each chunk
Embeddings(file) ==
    IF file.embed = "wrong_length"
    THEN Matrix([i \in 1..Len(file.cks) |-> <<0, 0, 0>>], 3)
    ELSE Matrix([i \in 1..Len(file.cks) |-> <<0, 0>>], 2)

NoResponse == [status |-> 0, chunks_added |-> 0, total_chunks |-> 0, answer |-> "",
               sources |-> <<>>, confidence |-> 0]

\* list.append of a key that is new to the dict; an old key keeps its place
WithKey(keys, name) ==
    IF \E i \in 1..Len(keys) : keys[i] = name THEN keys ELSE Append(keys, name)

\* upload_file from route_file to the response: route_file raises for an
\* extension it does not know (HTTP 500); the parser may raise (500); for a CSV
\* the DataFrame is put into csv_dataframes as soon as it is parsed (line 104);
\* a blank text ends with 400; embed_chunks may raise (500); get_store makes the
\* store if there is none; add may raise (500); then the name is appended to
\* uploaded_files
UploadOutcome(ix, cs, created, files, frames, file) ==
    LET routed == file.ext \in SUPPORTED_EXTENSIONS
        parsed == routed /\ file.parse = "ok"
        add == AddOutcome(ix, cs, Embeddings(file), file.cks)
        status == IF ~routed \/ ~parsed THEN 500
                  ELSE IF file.blank THEN 400
                  ELSE IF file.embed = "raises" THEN 500
                  ELSE IF add.err # "none" THEN 500
                  ELSE 200
        stored == parsed /\ ~file.blank /\ file.embed # "raises"
    IN  [status |-> status,
         index |-> IF stored THEN add.index ELSE ix,
         chunks |-> IF stored THEN add.chunks ELSE cs,
         created |-> created \/ stored,
         uploaded_files |-> IF status = 200 THEN Append(files, file.name) ELSE files,
         csv_dataframes |-> IF parsed /\ file.ext = "csv" THEN WithKey(frames, file.name)
                            ELSE frames,
         chunks_added |-> IF status = 200 THEN Len(file.cks) ELSE 0]

UploadFile ==
    \E file \in UploadedFiles :
        LET r == UploadOutcome(index, chunks, srv.created, srv.uploaded_files,
                               srv.csv_dataframes, file)
        IN  /\ ntotal(r.index) <= MaxCount
            /\ index' = r.index
            /\ chunks' = r.chunks
            /\ paired' = IF r.status = 200 THEN paired \o file.cks ELSE paired
            /\ srv' = [created |-> r.created,
                       uploaded_files |-> r.uploaded_files,
                       csv_dataframes |-> r.csv_dataframes,
                       request |-> "upload",
                       invoked |-> {},
                       added |-> srv.added + r.chunks_added,
                       resp |-> [NoResponse EXCEPT !.status = r.status,
                                                   !.chunks_added = r.chunks_added,
                                                   !.total_chunks = IF r.status = 200
                                                                    THEN StoreCount(r.index)
                                                                    ELSE 0]]
            /\ UNCHANGED <<dimension, disk, last, tool, chunking, pipe, session>>

\* faulty variant: the pipeline is run whatever the count
QueryDocuments_NoEmptyCheck(count, ran) ==
    [invoked |-> ran.invoked,
     resp |-> IF ran.err = "none"
              THEN [NoResponse EXCEPT !.status = 200, !.answer = "answer",
                                           !.sources = <<"source">>, !.confidence = 65]
              ELSE [NoResponse EXCEPT !.status = 500]]

\* query_documents: the fixed answer when store.count() is 0, else the pipeline
\* in the pool (ran: the steps it called and what it raised) and its answer, or
\* HTTP 500.  confidence is in hundredths.
QueryDocuments(count, ran) ==
    IF count = 0
    THEN [invoked |-> {},
          resp |-> [NoResponse EXCEPT !.status = 200, !.answer = "No documents have been uploaded yet."]]
    ELSE [invoked |-> ran.invoked,
          resp |-> IF ran.err = "none"
                   THEN [NoResponse EXCEPT !.status = 200, !.answer = "answer",
                                           !.sources = <<"source">>, !.confidence = 65]
                   ELSE [NoResponse EXCEPT !.status = 500]]

\* the runs of _run_query_pipeline: it stops at the step that raises
PipelineRuns ==
    {[invoked |-> {"planner"}, err |-> "ValueError"],
     [invoked |-> {"planner", "retriever"}, err |-> "IndexError"],
     [invoked |-> {"planner", "retriever", "reasoner"}, err |-> "ValueError"],
     [invoked |-> {"planner", "retriever", "reasoner"}, err |-> "none"],
     [invoked |-> {"planner", "retriever", "tool", "reasoner"}, err |-> "none"]}

\* POST /api/query: get_store makes the store if there is none
Query ==
    \E ran \in PipelineRuns :
        LET r == QueryDocuments(StoreCount(index), ran) IN
        /\ srv' = [srv EXCEPT !.created = TRUE, !.request = "query",
                              !.invoked = r.invoked, !.resp = r.resp]
        /\ UNCHANGED <<dimension, index, chunks, paired, disk, last, tool, chunking, pipe, session>>

(***************************************************************************)
(* SpecRequests: uploads and queries, one after the other.                 *)
(***************************************************************************)
InitRequests ==
    /\ dimension \in {2}
    /\ index = IndexFlatL2(dimension)
    /\ chunks = <<>>
    /\ paired = <<>>
    /\ disk = EmptyDisk
    /\ last = NoCall
    /\ srv = [created |-> FALSE, uploaded_files |-> <<>>, csv_dataframes |-> <<>>,
              request |-> "none", invoked |-> {}, added |-> 0, resp |-> NoResponse]
    /\ tool = Idle /\ chunking = Idle /\ pipe = Idle /\ session = Idle

NextRequests ==
    \/ UploadFile
    \/ Query

SpecRequests == InitRequests /\ [][NextRequests]_vars

(***************************************************************************)
(* app.py: the Streamlit session.  Each action is one run of the script,   *)
(* started by one event of the user.                                       *)
(*                                                                         *)
(* session.store tells whether st.session_state.store is None or a         *)
(* FAISSStore; dimension, index and chunks are the fields of the last      *)
(* FAISSStore the script made (after 'Upload New File' the session does    *)
(* not hold it any more).  session.run is what the last run did and        *)
(* session.retrieved the store that retrieve was called with in it.        *)
(***************************************************************************)
MaxChat == 2

\* the files of the uploader (type pdf, csv or json): whether the parser raises,
\* the chunks chunk_text makes (none of a blank text), and what embed_chunks
\* does with them (it raises for no chunks)
AppFiles ==
    [ext : {"csv", "pdf", "json"}, parse : {"ok", "raises"},
     cks : {<<>>, <<ChunkNear>>, <<ChunkBare>>, <<ChunkNear, ChunkBare>>},
     embed : {"ok", "raises"}, cols : {2, 3}]

AppEmbeddings(file) ==
    Matrix([i \in 1..Len(file.cks) |-> [j \in 1..file.cols |-> 0]], file.cols)

\* faulty variant: the chunks are added to the store made before
IngestOutcome_AddsToOldStore(d, ix, cs, file) ==
    LET raised == file.parse = "raises" \/ file.cks = <<>> \/ file.embed = "raises"
        add == AddOutcome(ix, cs, AppEmbeddings(file), file.cks)
    IN  IF raised \/ add.err # "none"
        THEN [ok |-> FALSE, dimension |-> d, index |-> ix, chunks |-> cs, dataframe |-> "None"]
        ELSE [ok |-> TRUE, dimension |-> d, index |-> add.index, chunks |-> add.chunks,
              dataframe |-> IF file.ext = "csv" THEN "DataFrame" ELSE "None"]

\* the try block of the ingest: parse, chunk_text, embed_chunks,
\* FAISSStore(dimension=embeddings.shape[1]) and one add; ok is whether it came
\* to the assignments of the session state
IngestOutcome(d, ix, cs, file) ==
    LET raised == file.parse = "raises" \/ file.cks = <<>> \/ file.embed = "raises"
        add == AddOutcome(IndexFlatL2(file.cols), <<>>, AppEmbeddings(file), file.cks)
    IN  IF raised \/ add.err # "none"
        THEN [ok |-> FALSE, dimension |-> d, index |-> ix, chunks |-> cs, dataframe |-> "None"]
        ELSE [ok |-> TRUE, dimension |-> file.cols, index |-> add.index, chunks |-> add.chunks,
              dataframe |-> IF file.ext = "csv" THEN "DataFrame" ELSE "None"]

\* 'Ingest File', shown when a file is chosen and ingested is false
Ingest ==
    /\ ~session.ingested
    /\ \E file \in AppFiles :
          LET r == IngestOutcome(dimension, index, chunks, file) IN
          /\ dimension' = r.dimension
          /\ index' = r.index
          /\ chunks' = r.chunks
          /\ paired' = r.chunks
          /\ session' = IF r.ok
                        THEN [session EXCEPT !.store = "FAISSStore", !.dataframe = r.dataframe,
                                             !.ingested = TRUE, !.chat_history = <<>>,
                                             !.run = "ingested", !.file = file.cks,
                                             !.retrieved = "not called"]
                        ELSE [session EXCEPT !.run = "ingest failed", !.file = file.cks,
                                             !.retrieved = "not called"]
    /\ UNCHANGED <<disk, last, tool, chunking, pipe, srv>>

\* 'Upload New File', shown when ingested is true
UploadNewFile ==
    /\ session.ingested
    /\ session' = [session EXCEPT !.store = "None", !.dataframe = "None", !.ingested = FALSE,
                                  !.chat_history = <<>>, !.run = "upload new file",
                                  !.file = <<>>, !.retrieved = "not called"]
    /\ UNCHANGED <<dimension, index, chunks, paired, disk, last, tool, chunking, pipe, srv>>

\* the steps of a question: the one that raises ends the run of the script
AskRuns == {"plan raises", "retrieve raises", "reason raises", "answered"}

\* the main area: the card while ingested is false; else the chat, and for a
\* question plan_query, retrieve(query, st.session_state.store), the tool,
\* reason and the entry appended to chat_history
MainArea ==
    /\ Len(session.chat_history) < MaxChat
    /\ \E ran \in AskRuns :
          session' =
              IF ~session.ingested
              THEN [session EXCEPT !.run = "card", !.file = <<>>, !.retrieved = "not called"]
              ELSE [session EXCEPT
                      !.run = ran, !.file = <<>>,
                      !.retrieved = IF ran = "plan raises" THEN "not called" ELSE session.store,
                      !.chat_history = IF ran = "answered"
                                       THEN Append(session.chat_history, "entry")
                                       ELSE session.chat_history]
    /\ UNCHANGED <<dimension, index, chunks, paired, disk, last, tool, chunking, pipe, srv>>

(***************************************************************************)
(* SpecApp: the runs of the Streamlit script in one session.               *)
(***************************************************************************)
InitApp ==
    /\ dimension \in {2}
    /\ index = IndexFlatL2(dimension)
    /\ chunks = <<>>
    /\ paired = <<>>
    /\ disk = EmptyDisk
    /\ last = NoCall
    /\ session = [store |-> "None", dataframe |-> "None", ingested |-> FALSE,
                  chat_history |-> <<>>, run |-> "none", file |-> <<>>,
                  retrieved |-> "not called"]
    /\ tool = Idle /\ chunking = Idle /\ pipe = Idle /\ srv = Idle

NextApp ==
    \/ Ingest
    \/ UploadNewFile
    \/ MainArea

SpecApp == InitApp /\ [][NextApp]_vars

(***************************************************************************)
(* Claims.                                                                 *)
(***************************************************************************)
\* the squared Euclidean distance, written out for the claims
RECURSIVE SquaredDistance(_, _, _)
SquaredDistance(x, y, i) ==
    IF i = 0 THEN 0 ELSE (x[i] - y[i]) * (x[i] - y[i]) + SquaredDistance(x, y, i - 1)

IsAdd(call) == call.op = "add"
Returned(call) == call.err = "none"
IsSearch(call) == call.op = "search"

\* C1: in every reachable state the index holds as many vectors as the chunk
\* list holds chunks, and the chunk at each position is the one add was given
\* with the vector at that position.
C1_Aligned ==
    /\ ntotal(index) = Len(chunks)
    /\ chunks = paired

\* C2: an add call whose array has n rows against m # n chunks raises the
\* mismatch error and leaves count(), the index and the chunk list as they were.
C2_CountMismatchRejected ==
    [][(IsAdd(last') /\ last'.n # last'.m) =>
          /\ last'.err = "ValueError"
          /\ StoreCount(index') = StoreCount(index)
          /\ index' = index
          /\ chunks' = chunks]_vars

C2_Witness ==
    /\ IsAdd(last) /\ last.err = "ValueError"
    /\ last.n = 2 /\ last.m = 1 /\ last.cols = dimension
    /\ StoreCount(index) = 1

\* C3: an add call with as many rows as chunks, whose rows are not of the
\* store's dimension, raises an error and appends nothing to the index nor to
\* the chunk list.
C3_WrongLengthRejected ==
    [][(IsAdd(last') /\ last'.n = last'.m /\ last'.cols # dimension) =>
          /\ ~Returned(last')
          /\ index' = index
          /\ chunks' = chunks]_vars

C3_Witness ==
    /\ IsAdd(last) /\ last.err = "AssertionError"
    /\ last.n = 2 /\ last.m = 2 /\ last.cols # dimension
    /\ StoreCount(index) = 1 /\ Len(chunks) = 1

\* C4: count() is 0 for a new store, and an add call of n rows that returns
\* leaves count() at its value before the call plus n.
C4_CountGrowsByN ==
    /\ StoreCount(index) = 0
    /\ [][(IsAdd(last') /\ Returned(last')) =>
             StoreCount(index') = StoreCount(index) + last'.n]_vars

C4_Witness ==
    /\ IsAdd(last) /\ Returned(last) /\ last.n = 1
    /\ StoreCount(index) = 2

\* C5: an add call that returns leaves the vectors and the chunks as they were,
\* followed by the rows and by the chunks given, in the order given; a failed
\* add, search, count and save leave both sequences as they were.
C5_AppendOnly ==
    [][/\ (IsAdd(last') /\ Returned(last')) =>
             /\ Len(last'.vecs) = Len(last'.pays)
             /\ index'.xb = index.xb \o last'.vecs
             /\ chunks' = chunks \o last'.pays
       /\ ((IsAdd(last') /\ ~Returned(last')) \/ last'.op \in {"search", "count", "save"}) =>
             /\ index'.xb = index.xb
             /\ chunks' = chunks
       /\ last'.op \in {"add", "search", "count", "save"} =>
             StoreCount(index') >= StoreCount(index)]_vars

C5_Witness ==
    /\ IsAdd(last) /\ Returned(last) /\ last.n = 1
    /\ StoreCount(index) = 2
    /\ index.xb[1] # index.xb[2] /\ chunks[1] # chunks[2]

\* C6: on a store whose count() is 0, search returns the empty list and raises
\* nothing, whatever the query and top_k.
C6_EmptyStoreSearch ==
    StoreCount(index) = 0 =>
        /\ IsSearch(last) => (Returned(last) /\ last.out = <<>>)
        /\ \A query \in Queries(QueryVecs), top_k \in TopKs :
              \A r \in SearchOutcomes(index, chunks, query, top_k) :
                  r.err = "none" /\ r.out = <<>>

C6_Witness ==
    /\ IsSearch(last) /\ StoreCount(index) = 0
    /\ last.k = -1 /\ Len(last.q) # dimension
    /\ last.out = <<>>

\* C7: on a populated store made by new and add, search with a query of the
\* store's dimension and top_k >= 1 returns min(top_k, count()) matches, and no
\* label it gets from the index is the "not found" label -1.
C7_MinTopKCount ==
    (IsSearch(last) /\ StoreCount(index) > 0 /\ last.k >= 1 /\ Len(last.q) = dimension) =>
        /\ Returned(last)
        /\ Len(last.out) = Min(last.k, StoreCount(index))
        /\ \A i \in 1..Len(last.lab) : last.lab[i] # -1

C7_Witness ==
    /\ IsSearch(last) /\ Returned(last)
    /\ StoreCount(index) = 2 /\ last.k = 5
    /\ Len(last.out) = 2

\* C8: the matches search returns are in non-decreasing order of score.
C8_AscendingScores ==
    IsSearch(last) =>
        \A i, j \in 1..Len(last.out) : i < j => last.out[i].score <= last.out[j].score

C8_Witness ==
    /\ IsSearch(last) /\ Len(last.out) = 2
    /\ last.out[1].score < last.out[2].score
    /\ index.xb[1] = <<10, 10>> /\ last.q = <<1, 1>>

\* C9: the positions search returns matches for are the nearest ones: no stored
\* vector left out is strictly nearer to the query than one returned, and fewer
\* than i stored vectors are strictly nearer than the score of the i-th match.
C9_NearestReturned ==
    (IsSearch(last) /\ Returned(last)) =>
        LET dist(p) == SquaredDistance(index.xb[p], last.q, Len(last.q))
            returned == {last.lab[i] + 1 : i \in 1..Len(last.lab)}
        IN  /\ Len(last.out) = Len(last.lab)
            /\ \A p \in 1..Len(index.xb) : \A r \in returned :
                  p \notin returned => dist(r) <= dist(p)
            /\ \A i \in 1..Len(last.out) :
                  Cardinality({p \in 1..Len(index.xb) : dist(p) < last.out[i].score}) < i

C9_Witness ==
    /\ IsSearch(last) /\ Returned(last)
    /\ index.xb = <<(<<10, 10>>), (<<0, 0>>)>> /\ chunks = <<ChunkBare, ChunkNear>>
    /\ last.q = <<1, 1>> /\ last.k = 1
    /\ Len(last.out) = 1 /\ last.out[1].text = "near"

\* C10: every match is that of one stored position: its score is the squared L2
\* distance of the query and the vector there, its text and metadata those of
\* the chunk there, "" and the empty mapping when the chunk lacks the key.
C10_MatchOfOnePosition ==
    (IsSearch(last) /\ Returned(last)) =>
        \A j \in 1..Len(last.out) :
            \E p \in 1..Len(index.xb) :
                /\ p <= Len(chunks)
                /\ last.out[j].score = SquaredDistance(index.xb[p], last.q, Len(last.q))
                /\ last.out[j].text = (IF "text" \in DOMAIN chunks[p] THEN chunks[p].text ELSE "")
                /\ last.out[j].metadata =
                       (IF "metadata" \in DOMAIN chunks[p] THEN chunks[p].metadata ELSE {})

C10_Witness ==
    /\ IsSearch(last) /\ Returned(last) /\ Len(last.out) = 2
    /\ last.out[1].score = 0 /\ last.out[1].text = "near"
    /\ last.out[1].metadata = {<<"chunk_index", 0>>}
    /\ last.out[2].score > 0 /\ last.out[2].text = "" /\ last.out[2].metadata = {}

\* C11: search is total: in every reachable store, a search with a query of the
\* store's length and any integer top_k, zero and negative ones on a populated
\* store included, raises nothing and returns at most top_k matches.
C11_SearchTotal ==
    (IsSearch(last) /\ Len(last.q) = index.d) =>
        /\ Returned(last)
        /\ Len(last.out) <= (IF last.k > 0 THEN last.k ELSE 0)

IsLoad(call) == call.op = "load"
IsSave(call) == call.op = "save"

C13_ArtifactsAgree ==
    /\ (disk.index.state = "ok" /\ disk.chunks.state = "ok") =>
           Len(disk.chunks.data) = Len(disk.index.xb)
    /\ (IsLoad(last) /\ Returned(last)) => StoreCount(index) = Len(chunks)

\* C15: load does not compare the dimension it is given with the index in the
\* directory: whatever the dimension, that of the save or another, a load from
\* two readable files returns, the store's dimension is the one given, and its
\* index and count are those of the file.
C15_LoadTakesAnyDimension ==
    [][(IsLoad(last') /\ disk.index.state = "ok" /\ disk.chunks.state = "ok") =>
          /\ Returned(last')
          /\ dimension' = last'.k
          /\ index' = [d |-> disk.index.d, xb |-> disk.index.xb]
          /\ StoreCount(index') = Len(disk.index.xb)]_vars

\* a store loaded with a dimension that is not its index's
C15_Witness ==
    /\ IsLoad(last) /\ Returned(last)
    /\ dimension = last.k /\ dimension # index.d
    /\ ntotal(index) >= 1

ToolDone == tool.pc = "done"
ToolFailed == tool.out.err # "none"
Abs(x) == IF x < 0 THEN 0 - x ELSE x

\* the rows of the requested column that are not null, in row order
NonNullRows == {i \in 1..Len(tool.df[tool.column].cells) : ~tool.df[tool.column].cells[i].null}
FirstRow == CHOOSE i \in NonNullRows : \A j \in NonNullRows : i <= j
LastRow == CHOOSE i \in NonNullRows : \A j \in NonNullRows : j <= i

\* the four cases of failure the numeric tool is said to have
UnknownOperation == tool.operation \notin {"average", "sum", "growth_rate"}
ColumnAbsent == tool.column \notin DOMAIN tool.df
TooFewValues ==
    /\ tool.operation = "growth_rate" /\ ~ColumnAbsent
    /\ Cardinality(NonNullRows) < 2
ZeroFirstValue ==
    /\ tool.operation = "growth_rate" /\ ~ColumnAbsent
    /\ Cardinality(NonNullRows) >= 2
    /\ tool.df[tool.column].dtype = "number"
    /\ tool.df[tool.column].cells[FirstRow].v = 0
SaidToFail == UnknownOperation \/ ColumnAbsent \/ TooFewValues \/ ZeroFirstValue

C17_GrowthFormula ==
    (ToolDone /\ ~ToolFailed /\ tool.operation = "growth_rate") =>
        LET cells == tool.df[tool.column].cells
            first == cells[FirstRow].v
            lastv == cells[LastRow].v
            r == tool.out.result
        IN  /\ ~r.result_pct.nan
            /\ r.result_pct.e4 * first = 100 * Scale * (lastv - first)
            /\ r.first = Number(first * Scale) /\ r.last = Number(lastv * Scale)
            /\ r = ExecuteOutcome([value |-> NumberColumn(<<Cell(first), Cell(lastv)>>)],
                                  "growth_rate", "value").result

\* C17 as it holds: result_pct is ((last - first) / first) * 100 rounded to four
\* decimals (within half a ten-thousandth of it); the rest as stated.
C17_GrowthFormulaRounded ==
    (ToolDone /\ ~ToolFailed /\ tool.operation = "growth_rate") =>
        LET cells == tool.df[tool.column].cells
            first == cells[FirstRow].v
            lastv == cells[LastRow].v
            r == tool.out.result
        IN  /\ ~r.result_pct.nan
            /\ 2 * Abs(r.result_pct.e4 * first - 100 * Scale * (lastv - first)) <= Abs(first)
            /\ r.first = Number(first * Scale) /\ r.last = Number(lastv * Scale)
            /\ r = ExecuteOutcome([value |-> NumberColumn(<<Cell(first), Cell(lastv)>>)],
                                  "growth_rate", "value").result

\* from 3 to 4 with a null between: 33.3333 per cent
C17_Witness ==
    /\ ToolDone /\ ~ToolFailed /\ tool.operation = "growth_rate"
    /\ tool.df.value.cells = <<Cell(3), Null, Cell(4)>>
    /\ tool.out.result.result_pct = Number(333333)
    /\ tool.out.result.first = Number(30000) /\ tool.out.result.last = Number(40000)

\* the chunks from the k-th on are runs of the sentences from the i-th on, one
\* after the other and to the last sentence
RECURSIVE RunsOfSentences(_, _, _, _)
RunsOfSentences(sentences, i, out, k) ==
    IF k > Len(out) THEN i = Len(sentences) + 1
    ELSE \E n \in 1..(Len(sentences) - i + 1) :
            /\ out[k].text = Join(SubSeq(sentences, i, i + n - 1), n)
            /\ RunsOfSentences(sentences, i + n, out, k + 1)

\* C18: the chunker never splits a sentence: for every text and chunk_size each
\* chunk's text is a non-empty run of consecutive whole sentences joined by
\* spaces, and the chunks in order hold every sentence of the text once, in the
\* order of the text.
C18_WholeSentencesInOrder ==
    chunking.pc = "done" =>
        RunsOfSentences(SplitSentences(chunking.text), 1, chunking.out, 1)

\* three sentences of one token each under a budget of two: two in the first
\* chunk, the third in the second
C18_Witness ==
    /\ chunking.pc = "done" /\ chunking.chunk_size = 2
    /\ SplitSentences(chunking.text) = <<(<<"a", "a", "a", ".">>), (<<"a", "a", "a", ".">>),
                                         (<<"a", "a", "a", ".">>)>>
    /\ Len(chunking.out) = 2
    /\ chunking.out[1].text = <<"a", "a", "a", ".", " ", "a", "a", "a", ".">>
    /\ chunking.out[2].text = <<"a", "a", "a", ".">>

\* a reply that is no JSON or lacks one of the required keys; only a JSON
\* object has keys
Malformed(reply, required) ==
    \/ reply.kind = "invalid"
    \/ reply.kind # "object"
    \/ ~(required \subseteq reply.has)

PlannerReplied == pipe.reply # NoReply
ReasonerReplied == pipe.answer # NoReply
Called(step) == \E i \in 1..Len(pipe.log) : pipe.log[i] = step
Calls(step) == Cardinality({i \in 1..Len(pipe.log) : pipe.log[i] = step})

\* C19: a reply of the planner or of the reasoner that is no JSON or lacks a
\* required key is a hard error in every entry point: plan_query, reason and
\* run_pipeline fail, none goes on to retrieval and none returns a plan or an
\* answer made from the reply.
C19_MalformedIsHardError ==
    /\ (pipe.entry \in {"plan_query", "run_pipeline"} /\ PlannerReplied
            /\ Malformed(pipe.reply, PlanKeys)) =>
           /\ pipe.pc = "failed" /\ pipe.err # "none"
           /\ ~pipe.planned
           /\ ~Called("retrieve")
    /\ (pipe.entry = "reason" /\ ReasonerReplied /\ Malformed(pipe.answer, ReasonKeys)) =>
           /\ pipe.pc = "failed" /\ pipe.err # "none"
           /\ ~pipe.answered

\* the place of a step in the order plan, retrieve, tool, reason
Rank(step) ==
    CASE step = "plan" -> 1 [] step = "retrieve" -> 2 [] step = "tool" -> 3 [] step = "reason" -> 4

\* C20: in the query pipeline of the server and of the app the steps come in
\* the order plan, retrieve, tool, reason: retrieval starts only once the plan
\* is there, the numeric tool runs only if the plan's needs_numeric is true and
\* there is tabular data, reason is called once, after retrieval and after
\* every run of the tool, and when planning fails neither retrieval nor reason
\* is called.
C20_StepOrder ==
    pipe.entry \in {"server", "app"} =>
        /\ \A i, j \in 1..Len(pipe.log) : i < j => Rank(pipe.log[i]) <= Rank(pipe.log[j])
        /\ Calls("plan") <= 1 /\ Calls("retrieve") <= 1 /\ Calls("reason") <= 1
        /\ Called("retrieve") => (Called("plan") /\ pipe.planned)
        /\ Called("tool") => (pipe.plan.nn /\ pipe.df # NoFrame /\ Called("retrieve"))
        /\ Called("reason") => Called("retrieve")
        /\ pipe.pc = "done" => Calls("reason") = 1
        /\ (pipe.pc = "failed" /\ ~pipe.planned) => pipe.log = <<"plan">>

\* a run of the server's pipeline that ended well, with six calls of the tool
C20_Witness ==
    /\ pipe.entry = "server" /\ pipe.pc = "done"
    /\ pipe.log = <<"plan", "retrieve", "tool", "tool", "tool", "tool", "tool", "tool", "reason">>
    /\ Len(pipe.metrics) = 6

\* C14: in the server add and search on the shared store are not interleaved:
\* no search of a query and no second add runs between the index.add and the
\* chunks.extend of an upload's add, so every search sees a store whose count
\* is the number of its chunks, and every label it gets is a position of the
\* chunk list.
C14_AddSearchNotInterleaved ==
    \A w \in Workers :
        /\ srv.query[w].pc \in {"collect", "done"} =>
               srv.query[w].seen.count = srv.query[w].seen.payloads
        /\ srv.query[w].err # "IndexError"

RECURSIVE SumTokens(_, _)
SumTokens(sentences, i) ==
    IF i = 0 THEN 0 ELSE EstimateTokens(sentences[i]) + SumTokens(sentences, i - 1)

\* the chunks from the k-th on are runs of the sentences from the i-th on, each
\* run within the budget when it has more than one sentence, holding no
\* sentence of chunk_size tokens or more beside another, and numbered k - 1
RECURSIVE RunsWithinBudget(_, _, _, _, _)
RunsWithinBudget(sentences, i, out, k, chunk_size) ==
    IF k > Len(out) THEN i = Len(sentences) + 1
    ELSE \E n \in 1..(Len(sentences) - i + 1) :
            LET run == SubSeq(sentences, i, i + n - 1) IN
            /\ out[k].text = Join(run, n)
            /\ n > 1 => SumTokens(run, n) <= chunk_size
            /\ \A j \in 1..n : EstimateTokens(run[j]) >= chunk_size => n = 1
            /\ out[k].metadata.chunk_index = k - 1
            /\ RunsWithinBudget(sentences, i + n, out, k + 1, chunk_size)

\* C25: chunk budget and numbering: for every text and chunk_size >= 1, the
\* token estimates of the sentences of a chunk of more than one sentence sum to
\* chunk_size at most; a sentence whose own estimate is chunk_size or more is a
\* chunk of its own; the k-th chunk (k from 0) has chunk_index = k.
C25_BudgetAndNumbering ==
    (chunking.pc = "done" /\ chunking.chunk_size >= 1) =>
        RunsWithinBudget(SplitSentences(chunking.text), 1, chunking.out, 1, chunking.chunk_size)

\* two sentences of one token fill a budget of two; the sentence of two tokens
\* that follows is the chunk numbered 1, alone
C25_Witness ==
    /\ chunking.pc = "done" /\ chunking.chunk_size = 2
    /\ Len(chunking.out) = 2
    /\ chunking.out[1].text = <<"a", "a", "a", ".", " ", "a", "a", "a", ".">>
    /\ chunking.out[1].metadata.chunk_index = 0
    /\ chunking.out[2].text = <<"c", "c", "c", "c", "c", "c", "c", "c", "!">>
    /\ chunking.out[2].metadata.chunk_index = 1

\* C26: search, count and save only read the store: after any of them, a search
\* that returns early on an empty store, one with top_k above count() and a
\* save that fails included, the vectors, the chunk list, the dimension and
\* count() are what they were, and the search just made, repeated on the
\* store as it is left, has the result it had.
C26_ReadOnly ==
    [][(IsSearch(last') \/ last'.op = "count" \/ IsSave(last')) =>
          /\ index' = index /\ chunks' = chunks /\ dimension' = dimension
          /\ StoreCount(index') = StoreCount(index)
          /\ IsSearch(last') =>
                [err |-> last'.err, lab |-> last'.lab, out |-> last'.out]
                    \in SearchOutcomes(index', chunks', [ndim |-> 2, data |-> last'.q], last'.k)]_vars

\* a store of two vectors right after a completed save
C26_Witness ==
    /\ IsSave(last) /\ Returned(last)
    /\ StoreCount(index) = 2 /\ Len(chunks) = 2
    /\ disk.index.xb = index.xb /\ Len(disk.chunks.data) = 2

\* C21: a failure of the numeric tool never ends a query: in the pipelines of
\* the server and of the app, once a call of the tool has raised the pipeline
\* still comes to the reasoning step, and when every call of the tool made for
\* the query raised, the prompt of the reasoner has no section of numeric
\* metrics.
C21_ToolFailureIsNoMetrics ==
    pipe.entry \in {"server", "app"} =>
        /\ pipe.raised > 0 => (pipe.pc = "reason" \/ Called("reason"))
        /\ (Called("reason") /\ Calls("tool") > 0 /\ pipe.raised = Calls("tool")) =>
               \A i \in 1..Len(pipe.prompt) : pipe.prompt[i] # "metrics"

\* the server's pipeline after three calls of the tool that all raised: the
\* reasoner was asked without metrics and the query was answered
C21_Witness ==
    /\ pipe.entry = "server" /\ pipe.pc = "done"
    /\ Calls("tool") = 3 /\ pipe.raised = 3
    /\ ~pipe.nometrics /\ pipe.metrics = <<>>
    /\ pipe.prompt = <<"query", "context">>

(***************************************************************************)
(* C22, C23: the server's requests and its shared state.                   *)
(***************************************************************************)
FixedAnswer ==
    [NoResponse EXCEPT !.status = 200, !.answer = "No documents have been uploaded yet."]

KeysOf(keys) == {keys[i] : i \in 1..Len(keys)}

C23_UploadAllOrNothing ==
    [][/\ (srv'.request = "upload" /\ srv'.resp.status # 200) =>
            /\ StoreCount(index') = StoreCount(index)
            /\ srv'.uploaded_files = srv.uploaded_files
            /\ srv'.csv_dataframes = srv.csv_dataframes
       /\ KeysOf(srv'.csv_dataframes) \subseteq KeysOf(srv'.uploaded_files)
       /\ StoreCount(index') = srv'.added]_vars

(***************************************************************************)
(* C24: the Streamlit session.                                             *)
(***************************************************************************)
IsIngest(ses, ses2) == ~ses.ingested /\ ses2.run \in {"ingested", "ingest failed"}

\* C24: between runs of the script ingested is true exactly when store is
\* not None, and retrieve has only been called with a store; an ingest that
\* succeeds leaves a new store that holds exactly the chunks of the file, added
\* in one add, and an empty chat_history; an ingest that fails leaves store,
\* dataframe, ingested and chat_history as they were; 'Upload New File' leaves
\* store None, dataframe None, ingested false and chat_history empty.
C24_SessionStateMachine ==
    /\ [](/\ session.ingested <=> session.store # "None"
          /\ session.retrieved \in {"not called", "FAISSStore"})
    /\ [][/\ (IsIngest(session, session') /\ session'.run = "ingested") =>
                /\ session'.store = "FAISSStore" /\ session'.ingested
                /\ chunks' = session'.file
                /\ paired' = session'.file
                /\ ntotal(index') = Len(session'.file)
                /\ index'.d = dimension'
                /\ session'.chat_history = <<>>
          /\ (IsIngest(session, session') /\ session'.run = "ingest failed") =>
                /\ session'.store = session.store
                /\ session'.dataframe = session.dataframe
                /\ session'.ingested = session.ingested
                /\ session'.chat_history = session.chat_history
                /\ index' = index /\ chunks' = chunks
          /\ session'.run = "upload new file" =>
                /\ session'.store = "None" /\ session'.dataframe = "None"
                /\ ~session'.ingested /\ session'.chat_history = <<>>]_vars

\* a file was ingested into a store of another dimension than the first one's
\* and a question about it was answered from that store
C24_Witness ==
    /\ session.ingested
    /\ dimension = 3
    /\ chunks = <<ChunkNear, ChunkBare>>
    /\ session.run = "answered"
    /\ session.retrieved = "FAISSStore"
    /\ Len(session.chat_history) = 1

====
